---- MODULE Spec2Model ----
(***************************************************************************)
(* Model of the service-process supervisor of mcp_srv_manager              *)
(* (src/main.py): ServiceManager (registry, live-process table, error      *)
(* table, conflict checks, start / stop / restart / is_running / get_pid / *)
(* stop_all) and the threads App runs it on: the Tk main thread and the    *)
(* daemon worker threads of App._do_action.                                *)
(*                                                                         *)
(* Strings are sequences of one-character strings.  A child process is     *)
(* identified with its pid; the host (other processes, listening sockets,  *)
(* availability of lsof / ps) is the environment.  The POSIX branch of the *)
(* platform tests is modelled (the application is a macOS bundle).         *)
(***************************************************************************)
EXTENDS Integers, Sequences, FiniteSets, TLC

(***************************************************************************)
(* Bounds of the model.                                                    *)
(***************************************************************************)
\* children of the supervisor that exist at one time (running, or exited
\* with a Popen object still held)
MaxSpawn == 2

(***************************************************************************)
(* Strings.                                                                *)
(***************************************************************************)
Digits == {"0", "1", "2", "3", "4", "5", "6", "7", "8", "9"}

\* the characters of \s and of str.split() / str.strip()
WhiteSpace == {" ", "\t", "\n", "\r", "\f"}

DigitVal(d) ==
    CASE d = "0" -> 0 [] d = "1" -> 1 [] d = "2" -> 2 [] d = "3" -> 3
      [] d = "4" -> 4 [] d = "5" -> 5 [] d = "6" -> 6 [] d = "7" -> 7
      [] d = "8" -> 8 [] d = "9" -> 9

\* s[i..] starts with p
HasPrefix(s, i, p) ==
    /\ i >= 1
    /\ i + Len(p) - 1 <= Len(s)
    /\ SubSeq(s, i, i + Len(p) - 1) = p

\* needle in hay (Python's substring test)
Contains(hay, needle) ==
    \E i \in 1..(Len(hay) + 1) : HasPrefix(hay, i, needle)

\* index of the first character of s at or after i that is not in set cs,
\* Len(s) + 1 when there is none
RECURSIVE SkipWhile(_, _, _)
SkipWhile(s, i, cs) ==
    IF i > Len(s) \/ s[i] \notin cs THEN i ELSE SkipWhile(s, i + 1, cs)

\* index of the first character of s at or after i that is in set cs
RECURSIVE SkipUntil(_, _, _)
SkipUntil(s, i, cs) ==
    IF i > Len(s) \/ s[i] \in cs THEN i ELSE SkipUntil(s, i + 1, cs)

\* int() of a string of digits
RECURSIVE IntOf(_)
IntOf(ds) ==
    IF ds = << >> THEN 0
    ELSE 10 * IntOf(SubSeq(ds, 1, Len(ds) - 1)) + DigitVal(ds[Len(ds)])

\* command.strip().split(): the maximal runs of non-whitespace, from i on
RECURSIVE SplitFrom(_, _)
SplitFrom(s, i) ==
    LET b == SkipWhile(s, i, WhiteSpace)
        e == SkipUntil(s, b, WhiteSpace)
    IN  IF b > Len(s) THEN << >>
        ELSE <<SubSeq(s, b, e - 1)>> \o SplitFrom(s, e)

split(s) == SplitFrom(s, 1)

\* t.endswith(suffix)
endswith(t, suffix) ==
    /\ Len(suffix) <= Len(t)
    /\ SubSeq(t, Len(t) - Len(suffix) + 1, Len(t)) = suffix

\* t.split('/')[-1]
RECURSIVE LastSlash(_, _)
LastSlash(t, i) ==
    IF i = 0 \/ t[i] = "/" THEN i ELSE LastSlash(t, i - 1)

basename(t) == SubSeq(t, LastSlash(t, Len(t)) + 1, Len(t))

(***************************************************************************)
(* ServiceManager._extract_port: re.search of                              *)
(*   (?:--port[=\s]|-p\s)(\d+)                                             *)
(* and int() of group 1; None when nothing matches.                        *)
(***************************************************************************)
\* the value standing for Python's None where a port is expected
NoPort == -1

\* where group 1 would start if the flag alternative matches at i, else 0
FlagEnd(s, i) ==
    IF /\ HasPrefix(s, i, <<"-", "-", "p", "o", "r", "t">>)
       /\ i + 6 <= Len(s)
       /\ s[i + 6] \in ({"="} \cup WhiteSpace)
    THEN i + 7
    ELSE IF /\ HasPrefix(s, i, <<"-", "p">>)
            /\ i + 2 <= Len(s)
            /\ s[i + 2] \in WhiteSpace
         THEN i + 3
         ELSE 0

\* the pattern matches at position i
MatchesAt(s, i) ==
    LET d == FlagEnd(s, i)
    IN  d > 0 /\ d <= Len(s) /\ s[d] \in Digits

\* a port search that takes the last match
LastMatch(command) ==
    LET hits == {i \in 1..Len(command) : MatchesAt(command, i)}
    IN  IF hits = {} THEN NoPort
        ELSE LET i == CHOOSE h \in hits : \A k \in hits : h >= k
                 d == FlagEnd(command, i)
                 e == SkipWhile(command, d, Digits)
             IN  IntOf(SubSeq(command, d, e - 1))

_extract_port(command) ==
    LET hits == {i \in 1..Len(command) : MatchesAt(command, i)}
    IN  IF hits = {} THEN NoPort
        ELSE LET i == CHOOSE h \in hits : \A k \in hits : h <= k
                 d == FlagEnd(command, i)
                 e == SkipWhile(command, d, Digits)
             IN  IntOf(SubSeq(command, d, e - 1))

\* a test that only None fails
NotNone(port) == port # NoPort

\* `if port:` of start: None and 0 are both false
Truthy(port) == port # NoPort /\ port # 0

(***************************************************************************)
(* The registry and the host.                                              *)
(***************************************************************************)
\* the names operations are called with: "a" is in the registry, "b" is not
Names == {"a", "b"}

\* "w -p 8": a command that names port 8
CmdA == <<"w", " ", "-", "p", " ", "8">>

\* "w -p 0": the same command with port 0
CmdZero == <<"w", " ", "-", "p", " ", "0">>

\* the registry load_config reads at construction
InitServices ==
    << [name |-> "a", command |-> CmdA] >>

\* "v": a command that names no port
CmdB == <<"v">>

\* a registry that defines both names
PairServices ==
    << [name |-> "a", command |-> CmdA], [name |-> "b", command |-> CmdB] >>

\* threads: the Tk main thread and the workers App._do_action runs on
Workers == {"w1", "w2"}

Threads == {"main"} \cup Workers

\* absence of a Popen handle / of a pid (dict.get's None)
NoProc == 0

\* pids of the children are 1..MaxSpawn; the host's other processes follow
ExtListenerPid == MaxSpawn + 1

\* processes of the host that the supervisor did not spawn: one ("n")
\* listening on port 8
ExtProcs ==
    { [pid |-> ExtListenerPid, cmd |-> <<"n">>, port |-> 8] }

\* exit codes of a child that ends on its own
OwnExitCodes == {0, 1}

\* Popen.returncode of a child ended by SIGTERM / SIGKILL
SigTermCode == -15

SigKillCode == -9

VARIABLES
    services,    \* ServiceManager.services: list of {name, command}
    processes,   \* ServiceManager.processes: name -> Popen (its pid), NoProc = absent
    errors,      \* ServiceManager.errors: name -> message, NoError = absent
    procs,       \* the children, by pid: status, exit code, ...
    th,          \* per thread: position, operation, locals
    ext,         \* the host's other processes now running
    hostOk,      \* lsof / ps answer (FALSE: missing, failing or timing out)
    exited,      \* App.destroy has run: the application is gone
    config,      \* the file CONFIG_FILE (services.json): whether it exists, its text
    probe,       \* a command line and what _extract_port has returned for it
    ui           \* App: the pending after() calls of _auto_refresh, and the
                 \* pass under way: its local `changed`, whether the last
                 \* pass called _rebuild_list

vars ==
    <<services, processes, errors, procs, th, ext, hostOk, exited, config,
      probe, ui>>

(***************************************************************************)
(* Error messages (the values of ServiceManager.errors).                   *)
(***************************************************************************)
Err(kind, code, port, blocker, running) ==
    [kind |-> kind, code |-> code, port |-> port,
     blocker |-> blocker, running |-> running]

\* name not in self.errors
NoError == Err("none", 0, NoPort, << >>, << >>)

\* "Service not found"
ErrNotFound == Err("Service not found", 0, NoPort, << >>, << >>)

\* f"Port {port} used by {blocker}"
ErrPort(port, blocker) == Err("Port used by", 0, port, blocker, << >>)

\* f"Process running: PID {existing}"
ErrRunning(existing) == Err("Process running: PID", 0, NoPort, << >>, existing)

\* an exit message without the optional segments
ExitCodeOnly(code, port, blocker, existing) ==
    Err("Exit code", code, NoPort, << >>, << >>)

\* f"Exit code {returncode}" [" | port {port} held by PID {blocker}"]
\* [" | running: {existing}"]; the captured output is not modelled
ErrExitCode(code, port, blocker, existing) ==
    Err("Exit code", code, IF blocker = << >> THEN NoPort ELSE port,
        blocker, existing)

\* str(e) of an exception caught in start (what = "spawn") or stop ("signal")
ErrStr(what) == Err(what, 0, NoPort, << >>, << >>)

\* f"Process exited with code {returncode}"
ErrExited(code) == Err("Process exited with code", code, NoPort, << >>, << >>)

(***************************************************************************)
(* Children.                                                               *)
(***************************************************************************)
\* a pid no child has
FreeSlot ==
    [status |-> "free", code |-> 0, name |-> "", cmd |-> << >>, sig |-> "none"]

Pids == {p \in 1..MaxSpawn : procs[p].status # "free"}

\* subprocess.Popen(svc["command"], shell=True, ..., preexec_fn=os.setsid)
NewProc(name, command) ==
    [status |-> "alive", code |-> 0, name |-> name, cmd |-> command,
     sig |-> "none"]

\* Popen.poll() is None
Alive(p) == p \in Pids /\ procs[p].status = "alive"

\* the children pr without those that have exited and that neither the
\* table nor a local variable of a thread refers to: nothing can observe
\* them any more (their Popen objects are garbage)
Sweep(pr, table, threads) ==
    [p \in 1..MaxSpawn |->
        IF /\ pr[p].status = "exited"
           /\ \A n \in Names : table[n] # p
           /\ \A t \in Threads : threads[t].proc # p
        THEN FreeSlot ELSE pr[p]]

\* the set S of pids as the list a host tool prints, cut to its first 3
RECURSIVE SortedSeq(_)
SortedSeq(S) ==
    IF S = {} THEN << >>
    ELSE LET m == CHOOSE x \in S : \A y \in S : x <= y
         IN  <<m>> \o SortedSeq(S \ {m})

First3(q) == SubSeq(q, 1, IF Len(q) < 3 THEN Len(q) ELSE 3)

(***************************************************************************)
(* Conflict checks.                                                        *)
(***************************************************************************)
\* a port check that takes a failed query for a conflict
FailsClosed(port) ==
    IF ~hostOk THEN <<0>>
    ELSE First3(SortedSeq({e.pid : e \in {x \in ext : x.port = port}}))

\* ServiceManager._check_port_conflict: lsof -i :port -t -sTCP:LISTEN; any
\* failure of the query is "no conflict".  The result is the list of pids
\* (the process names lsof's pids are decorated with are not modelled).
_check_port_conflict(port) ==
    IF ~hostOk THEN << >>
    ELSE First3(SortedSeq({e.pid : e \in {x \in ext : x.port = port}}))

\* the lines of `ps -eo pid,command`: the live children and the host's
\* other processes
PsLines ==
    {[pid |-> p, cmd |-> procs[p].cmd] : p \in {q \in Pids : Alive(q)}}
        \cup {[pid |-> e.pid, cmd |-> e.cmd] : e \in ext}

\* the lines _find_same_cmd_processes skips
SkippedLine(cmd_line) ==
    \/ Contains(cmd_line, <<"g", "r", "e", "p">>)
    \/ Contains(cmd_line, <<" ", "p", "g", "r", "e", "p", " ">>)
    \/ /\ Contains(cmd_line, <<"m", "a", "i", "n", ".", "p", "y">>)
       /\ Contains(cmd_line, <<"m", "c", "p", "_", "s", "r", "v", "_",
                               "m", "a", "n", "a", "g", "e", "r">>)

\* the token the command is recognised by
Target(command) ==
    LET parts == split(command)
        first == parts[1]
    IN  IF /\ \/ endswith(first, <<"p", "y", "t", "h", "o", "n">>)
              \/ endswith(first, <<"p", "y", "t", "h", "o", "n", "3">>)
           /\ Len(parts) > 1
        THEN parts[2]
        ELSE first

\* ServiceManager._find_same_cmd_processes
_find_same_cmd_processes(command) ==
    IF ~hostOk \/ split(command) = << >> THEN << >>
    ELSE LET target == Target(command)
             target_name == basename(target)
             hits == {l \in PsLines :
                        /\ ~SkippedLine(l.cmd)
                        /\ \/ Contains(l.cmd, target)
                           \/ target_name # << >> /\ Contains(l.cmd, target_name)}
         IN  First3(SortedSeq({l.pid : l \in hits}))

\* a lookup that takes the first definition whatever its name
FindsFirst(name) == IF services = << >> THEN 0 ELSE 1

\* ServiceManager._find: index of the first definition of that name, 0 = None
_find(name) ==
    LET hits == {i \in 1..Len(services) : services[i].name = name}
    IN  IF hits = {} THEN 0 ELSE CHOOSE i \in hits : \A k \in hits : i <= k

\* a get_pid that trusts the table without polling the process
PidOfHandle(name) == processes[name]

\* ServiceManager.get_pid
get_pid(name) ==
    IF processes[name] # NoProc /\ Alive(processes[name])
    THEN processes[name] ELSE NoProc

\* ServiceManager.get_error
get_error(name) == errors[name]

(***************************************************************************)
(* The registry file: json.dump(..., indent=2, ensure_ascii=False) of      *)
(* {"services": [{"name": ..., "command": ...}, ...]} and json.load.  A    *)
(* name is one character; a command is a sequence of characters.           *)
(***************************************************************************)
\* the text of a string
Text(str) ==
    CASE str = "services" -> <<"s", "e", "r", "v", "i", "c", "e", "s">>
      [] str = "name" -> <<"n", "a", "m", "e">>
      [] str = "command" -> <<"c", "o", "m", "m", "a", "n", "d">>
      [] OTHER -> <<str>>

\* a dump that writes every character as it is
Unescaped(c) == <<c>>

\* what json.dump writes for one character of a string
EscapeChar(c) ==
    CASE c = "\"" -> <<"\\", "\"">>
      [] c = "\\" -> <<"\\", "\\">>
      [] c = "\n" -> <<"\\", "n">>
      [] c = "\t" -> <<"\\", "t">>
      [] c = "\r" -> <<"\\", "r">>
      [] c = "\f" -> <<"\\", "f">>
      [] OTHER -> <<c>>

\* what json.load reads for the character that follows a backslash
UnescapeChar(c) ==
    CASE c = "n" -> "\n"
      [] c = "t" -> "\t"
      [] c = "r" -> "\r"
      [] c = "f" -> "\f"
      [] OTHER -> c

\* a string as json.dump writes it, between quotes
RECURSIVE Escaped(_)
Escaped(chars) ==
    IF chars = << >> THEN << >>
    ELSE EscapeChar(Head(chars)) \o Escaped(Tail(chars))

Quoted(chars) == <<"\"">> \o Escaped(chars) \o <<"\"">>

\* a newline and the indentation of level k (indent=2)
RECURSIVE Spaces(_)
Spaces(k) == IF k = 0 THEN << >> ELSE <<" ">> \o Spaces(k - 1)

NewLine(level) == <<"\n">> \o Spaces(2 * level)

\* one definition, at level 2 of the document
DumpService(svc) ==
    <<"{">> \o NewLine(3)
      \o Quoted(Text("name")) \o <<":", " ">> \o Quoted(Text(svc.name))
      \o <<",">> \o NewLine(3)
      \o Quoted(Text("command")) \o <<":", " ">> \o Quoted(svc.command)
      \o NewLine(2) \o <<"}">>

RECURSIVE DumpServices(_, _)
DumpServices(svcs, i) ==
    IF i > Len(svcs) THEN << >>
    ELSE NewLine(2) \o DumpService(svcs[i])
           \o (IF i < Len(svcs) THEN <<",">> ELSE << >>)
           \o DumpServices(svcs, i + 1)

\* json.dump({"services": svcs}, f, indent=2, ensure_ascii=False)
dumps(svcs) ==
    <<"{">> \o NewLine(1) \o Quoted(Text("services")) \o <<":", " ">>
      \o (IF svcs = << >> THEN <<"[", "]">>
          ELSE <<"[">> \o DumpServices(svcs, 1) \o NewLine(1) \o <<"]">>)
      \o NewLine(0) \o <<"}">>

\* the string literal of text whose first character is at i: the string
\* read so far is acc; the result is the string and the index after the
\* closing quote
RECURSIVE ScanString(_, _, _)
ScanString(text, i, acc) ==
    IF i > Len(text) THEN <<acc, i>>
    ELSE IF text[i] = "\"" THEN <<acc, i + 1>>
    ELSE IF text[i] = "\\" /\ i < Len(text)
         THEN ScanString(text, i + 2, Append(acc, UnescapeChar(text[i + 1])))
         ELSE ScanString(text, i + 1, Append(acc, text[i]))

\* the strings of the document, keys and values, in the order they are read
RECURSIVE Strings(_, _)
Strings(text, i) ==
    IF i > Len(text) THEN << >>
    ELSE IF text[i] = "\""
         THEN LET r == ScanString(text, i + 1, << >>)
              IN  <<r[1]>> \o Strings(text, r[2])
         ELSE Strings(text, i + 1)

\* json.load(f).get("services", []) of a document written by save_config:
\* after the key "services", each definition is the key "name", its value,
\* the key "command", its value
loads(text) ==
    LET strs == Strings(text, 1)
        n == (Len(strs) - 1) \div 4
    IN  [k \in 1..n |-> [name |-> strs[4 * k - 1][1],
                         command |-> strs[4 * k + 1]]]

\* the file absent
NoFile == [exists |-> FALSE, text |-> << >>]

\* ServiceManager.save_config of the list svcs: the file afterwards
save_config(svcs) == [exists |-> TRUE, text |-> dumps(svcs)]

\* ServiceManager.load_config: the list it leaves in self.services
load_config ==
    IF config.exists THEN loads(config.text) ELSE << >>

(***************************************************************************)
(* Threads.  A thread's record holds its position (pc), the operation it   *)
(* was started on (op), the name, the locals of start and stop (cmd: the   *)
(* command of svc, proc: the Popen), the value the call it last made       *)
(* returned (ret) and the line it returned from (at; for the `return True` *)
(* of line 349, which stop reaches on three ways, the line of the way      *)
(* taken: 332, 339 or 343), the index remove_service was called with       *)
(* (idx), and whether start has called _check_port_conflict at line 241    *)
(* (checked).                                                              *)
(***************************************************************************)
\* a thread that runs nothing
Idle ==
    [pc |-> "idle", op |-> "none", name |-> "", proc |-> NoProc,
     cmd |-> << >>, todo |-> {}, ret |-> "", at |-> 0, idx |-> 0,
     checked |-> FALSE]

StartPcs ==
    {"start_228", "start_228b", "start_231", "start_239", "start_247",
     "start_266", "start_276"}

StopPcs == {"stop_319", "stop_331", "stop_332", "stop_338"}

\* thread t is inside an operation on name n
Inside(t, n) == th[t].pc \notin {"idle", "ret", "raised"} /\ th[t].name = n

\* no thread other than t is inside an operation on name n
Free(t, n) == \A u \in Threads \ {t} : ~Inside(u, n)

\* starts that may still spawn a child
PendingSpawns ==
    Cardinality({u \in Threads :
                   /\ th[u].op \in {"start", "restart"}
                   /\ th[u].pc \notin {"start_276", "ret", "raised"}})

\* the thread after its operation has returned value from line
Done(t, value, line) ==
    [Idle EXCEPT !.pc = "ret", !.op = th[t].op, !.name = th[t].name,
                 !.ret = value, !.at = line, !.idx = th[t].idx]

\* start returns value in thread t (restart returns it too)
StartReturns(t, value, line) ==
    th' = [th EXCEPT ![t] = Done(t, value, line)]

\* a restart that gives up when its stop has failed
StopAborts(t, value, line) ==
    th' = [th EXCEPT ![t] =
             CASE th[t].op = "stop" -> Done(t, value, line)
               [] th[t].op = "restart" ->
                     IF value = "False" THEN Done(t, value, line)
                     ELSE [th[t] EXCEPT !.pc = "start_228", !.proc = NoProc,
                                        !.ret = value]
               [] th[t].op = "stop_all" ->
                     [th[t] EXCEPT !.pc = "all_420", !.proc = NoProc,
                                   !.name = "", !.ret = value]
               [] th[t].op = "remove_service" ->
                     [th[t] EXCEPT !.pc = "remove_148", !.proc = NoProc,
                                   !.ret = value]]

\* stop returns value in thread t: to the caller of stop, to restart
\* (time.sleep(0.3); return self.start(name)), to the loop of stop_all or
\* to remove_service
StopReturns(t, value, line) ==
    th' = [th EXCEPT ![t] =
             CASE th[t].op = "stop" -> Done(t, value, line)
               [] th[t].op = "restart" ->
                     [th[t] EXCEPT !.pc = "start_228", !.proc = NoProc,
                                   !.ret = value]
               [] th[t].op = "stop_all" ->
                     [th[t] EXCEPT !.pc = "all_420", !.proc = NoProc,
                                   !.name = "", !.ret = value]
               [] th[t].op = "remove_service" ->
                     [th[t] EXCEPT !.pc = "remove_148", !.proc = NoProc,
                                   !.ret = value]]

(***************************************************************************)
(* App._on_toggle, App._on_restart: a worker thread is started on          *)
(* mgr.start, mgr.stop or mgr.restart of a name (ServiceManager takes any  *)
(* name, registered or not).  With serial, operations on one name do not   *)
(* overlap.                                                                *)
(***************************************************************************)
Call(t, f, n, serial) ==
    /\ ~exited
    /\ th[t].pc = "idle"
    /\ serial => Free(t, n)
    /\ f \in {"start", "restart"} =>
          Cardinality(Pids) + PendingSpawns < MaxSpawn
    /\ th' = [th EXCEPT ![t] =
                [Idle EXCEPT !.pc = IF f = "start" THEN "start_228"
                                    ELSE "stop_319",
                             !.op = f, !.name = n]]
    /\ UNCHANGED <<ui, config, probe, services, processes, errors, procs, ext, hostOk, exited>>

\* App._do_action: fn(name) has returned (or raised, which ends the thread)
Finish(t) ==
    /\ ~exited
    /\ th[t].pc \in {"ret", "raised"}
    /\ th' = [th EXCEPT ![t] = Idle]
    /\ UNCHANGED <<ui, config, probe, services, processes, errors, procs, ext, hostOk, exited>>

(***************************************************************************)
(* ServiceManager.start                                                    *)
(***************************************************************************)
\* line 228, left operand: name in self.processes
Start228(t) ==
    /\ ~exited
    /\ th[t].pc = "start_228"
    /\ th' = [th EXCEPT ![t].pc =
                          IF processes[th[t].name] # NoProc THEN "start_228b"
                          ELSE "start_231",
                        ![t].ret = ""]
    /\ UNCHANGED <<ui, config, probe, services, processes, errors, procs, ext, hostOk, exited>>

\* a start that takes the test of line 228 the wrong way round
RunningInverted(p) == ~Alive(p)

\* the handle start finds alive: return True
AlreadyRunning(p) == Alive(p)

\* line 228, right operand: self.processes[name].poll() is None; the
\* subscript raises KeyError when the entry was popped meanwhile, and
\* nothing in start or _do_action catches it
Start228b(t) ==
    LET n == th[t].name
    IN  /\ ~exited
        /\ th[t].pc = "start_228b"
        /\ IF processes[n] = NoProc
           THEN th' = [th EXCEPT ![t] = [Done(t, "", 228) EXCEPT !.pc = "raised"]]
           ELSE IF AlreadyRunning(processes[n])
           THEN StartReturns(t, "True", 229)
           ELSE th' = [th EXCEPT ![t].pc = "start_231"]
        /\ UNCHANGED <<ui, config, probe, services, processes, errors, procs, ext, hostOk, exited>>

\* a start that fails without recording the message
ErrorNotRecorded(n, e) == errors

\* a pop that leaves the error in the table
ErrorKept(n) == errors

\* self.errors.pop(name, None)
ErrorCleared(n) == [errors EXCEPT ![n] = NoError]

\* the error table after a start has failed with message e
StartFails(n, e) == [errors EXCEPT ![n] = e]

\* lines 231-236: svc = self._find(name); "Service not found" or
\* self.errors.pop(name, None)
Start231(t) ==
    LET n == th[t].name
        i == _find(n)
    IN  /\ ~exited
        /\ th[t].pc = "start_231"
        /\ IF i = 0
           THEN /\ errors' = StartFails(n, ErrNotFound)
                /\ StartReturns(t, "False", 234)
           ELSE /\ errors' = ErrorCleared(n)
                /\ th' = [th EXCEPT ![t].pc = "start_239",
                                    ![t].cmd = services[i].command]
        /\ UNCHANGED <<ui, config, probe, services, processes, procs, ext, hostOk, exited>>

\* a start that drops the handle when it fails on the port check
HandleDropped(n) == [processes EXCEPT ![n] = NoProc]

\* the live-process table after start has failed on the port check
TableAfterPortConflict(n) == processes

\* lines 239-244: the port check
Start239(t) ==
    LET n == th[t].name
        port == _extract_port(th[t].cmd)
        blocker == IF Truthy(port) THEN _check_port_conflict(port) ELSE << >>
    IN  /\ ~exited
        /\ th[t].pc = "start_239"
        /\ IF blocker # << >>
           THEN /\ errors' = StartFails(n, ErrPort(port, blocker))
                /\ processes' = TableAfterPortConflict(n)
                /\ StartReturns(t, "False", 244)
           ELSE /\ th' = [th EXCEPT ![t].pc = "start_247",
                                    ![t].checked = Truthy(port)]
                /\ UNCHANGED <<errors, processes>>
        /\ UNCHANGED <<ui, config, probe, services, procs, ext, hostOk, exited>>

\* lines 247-250: the duplicate-command check
Start247(t) ==
    LET n == th[t].name
        existing == _find_same_cmd_processes(th[t].cmd)
    IN  /\ ~exited
        /\ th[t].pc = "start_247"
        /\ IF existing # << >>
           THEN /\ errors' = StartFails(n, ErrRunning(existing))
                /\ StartReturns(t, "False", 250)
           ELSE /\ th' = [th EXCEPT ![t].pc = "start_266"]
                /\ UNCHANGED errors
        /\ UNCHANGED <<ui, config, probe, services, processes, procs, ext, hostOk, exited>>

\* the pid the next child gets
NewPid == CHOOSE p \in 1..MaxSpawn : procs[p].status = "free"

\* lines 252-274: the temporary files and subprocess.Popen; an exception
\* (ok = FALSE) is caught at line 314
Start266(t) ==
    LET n == th[t].name
    IN  /\ ~exited
        /\ th[t].pc = "start_266"
        /\ \E p \in 1..MaxSpawn : procs[p].status = "free"
        /\ \E ok \in BOOLEAN :
             IF ok
             THEN /\ procs' = [procs EXCEPT ![NewPid] = NewProc(n, th[t].cmd)]
                  /\ th' = [th EXCEPT ![t].pc = "start_276",
                                      ![t].proc = NewPid]
                  /\ UNCHANGED errors
             ELSE /\ errors' = StartFails(n, ErrStr("spawn"))
                  /\ StartReturns(t, "False", 316)
                  /\ UNCHANGED procs
        /\ UNCHANGED <<ui, config, probe, services, processes, ext, hostOk, exited>>

\* lines 275-313: after the grace period, the child has exited ("Exit code
\* ...", with both checks run again) or is recorded as the live handle
Start276(t) ==
    LET n == th[t].name
        p == th[t].proc
        port == _extract_port(th[t].cmd)
        blocker == IF Truthy(port) THEN _check_port_conflict(port) ELSE << >>
        existing == _find_same_cmd_processes(th[t].cmd)
    IN  /\ ~exited
        /\ th[t].pc = "start_276"
        /\ IF ~Alive(p)
           THEN /\ errors' = StartFails(n,
                       ErrExitCode(procs[p].code, port, blocker, existing))
                /\ UNCHANGED processes
                /\ StartReturns(t, "False", 303)
           ELSE /\ processes' = [processes EXCEPT ![n] = p]
                /\ UNCHANGED errors
                /\ StartReturns(t, "True", 313)
        /\ procs' = Sweep(procs, processes', th')
        /\ UNCHANGED <<ui, config, probe, services, ext, hostOk, exited>>

(***************************************************************************)
(* ServiceManager.stop                                                     *)
(***************************************************************************)
\* a stop that leaves the handle in the table
NotPopped(n) == processes

\* a pop that empties the table
ClearsTable(n) == [m \in Names |-> NoProc]

\* self.processes.pop(name, None)
Popped(n) == [processes EXCEPT ![n] = NoProc]

\* lines 319-325: self.errors.pop(name, None); no handle, or a handle whose
\* process has exited: return True
Stop319(t) ==
    LET n == th[t].name
        p == processes[n]
    IN  /\ ~exited
        /\ th[t].pc = "stop_319"
        /\ errors' = ErrorCleared(n)
        /\ IF p = NoProc
           THEN /\ UNCHANGED processes
                /\ StopReturns(t, "True", 322)
           ELSE IF ~Alive(p)
           THEN /\ processes' = Popped(n)
                /\ StopReturns(t, "True", 325)
           ELSE /\ th' = [th EXCEPT ![t].pc = "stop_331", ![t].proc = p]
                /\ UNCHANGED processes
        /\ procs' = Sweep(procs, processes', th')
        /\ UNCHANGED <<ui, config, probe, services, ext, hostOk, exited>>

\* line 331: os.killpg(os.getpgid(proc.pid), signal.SIGTERM).  The process
\* is gone already (ProcessLookupError, line 342); or the signal is
\* delivered; or the call fails otherwise (line 344: the message is
\* recorded and stop returns False).  Line 348 pops the handle on each way
\* out.
Stop331(t) ==
    LET n == th[t].name
        p == th[t].proc
    IN  /\ ~exited
        /\ th[t].pc = "stop_331"
        /\ IF ~Alive(p)
           THEN /\ processes' = Popped(n)
                /\ StopReturns(t, "True", 343)
                /\ procs' = Sweep(procs, processes', th')
                /\ UNCHANGED errors
           ELSE \E delivered \in BOOLEAN :
                  IF delivered
                  THEN /\ procs' = [procs EXCEPT ![p].sig = "TERM"]
                       /\ th' = [th EXCEPT ![t].pc = "stop_332"]
                       /\ UNCHANGED <<errors, processes>>
                  ELSE /\ errors' = [errors EXCEPT ![n] = ErrStr("signal")]
                       /\ procs' = [procs EXCEPT ![p].sig =
                                      IF @ = "none" THEN "failed" ELSE @]
                       /\ processes' = Popped(n)
                       /\ StopReturns(t, "False", 346)
        /\ UNCHANGED <<ui, config, probe, services, ext, hostOk, exited>>

\* a stop that escalates whether or not the process has exited
AlwaysExpired(p) == TRUE

\* proc.wait(timeout=5) raises TimeoutExpired: the process is still there
TimeoutExpired(p) == Alive(p)

\* line 332: proc.wait(timeout=5) returns (the process has exited: line 348
\* pops the handle, stop returns True) or raises TimeoutExpired (line 333)
Stop332(t) ==
    LET n == th[t].name
        p == th[t].proc
    IN  /\ ~exited
        /\ th[t].pc = "stop_332"
        /\ IF TimeoutExpired(p)
           THEN /\ th' = [th EXCEPT ![t].pc = "stop_338"]
                /\ UNCHANGED processes
           ELSE /\ processes' = Popped(n)
                /\ StopReturns(t, "True", 332)
        /\ procs' = Sweep(procs, processes', th')
        /\ UNCHANGED <<ui, config, probe, services, errors, ext, hostOk, exited>>

\* lines 334-341: os.killpg(..., signal.SIGKILL); proc.wait(timeout=3); any
\* exception is swallowed, so the process may survive (killed = FALSE: the
\* signal could not be sent, or the process did not go within 3 s).
\* Line 348 pops the handle; stop returns True.
Stop338(t) ==
    LET n == th[t].name
        p == th[t].proc
    IN  /\ ~exited
        /\ th[t].pc = "stop_338"
        /\ processes' = Popped(n)
        /\ StopReturns(t, "True", 339)
        /\ \E killed \in BOOLEAN :
             procs' = Sweep(IF killed /\ Alive(p)
                            THEN [procs EXCEPT ![p].status = "exited",
                                               ![p].code = SigKillCode,
                                               ![p].sig = "KILL"]
                            ELSE procs,
                            processes', th')
        /\ UNCHANGED <<ui, config, probe, services, errors, ext, hostOk, exited>>

(***************************************************************************)
(* ServiceManager.is_running, called on the main thread by                 *)
(* App._auto_refresh and App._rebuild_list.                                *)
(***************************************************************************)
\* an is_running that overwrites the message already recorded
ExitOverwrites(n, code) == [errors EXCEPT ![n] = ErrExited(code)]

\* a poll that records no exit
ExitIgnored(n, code) == errors

\* the error table after is_running has found the process exited with code
ExitRecorded(n, code) ==
    IF errors[n] = NoError THEN [errors EXCEPT ![n] = ErrExited(code)]
    ELSE errors

is_running(n, serial) ==
    LET p == processes[n]
        returns(value, line) ==
            th' = [th EXCEPT !["main"] =
                     [Idle EXCEPT !.pc = "ret", !.op = "is_running",
                                  !.name = n, !.ret = value,
                                  !.at = line]]
    IN  /\ ~exited
        /\ th["main"].pc = "idle"
        /\ serial => Free("main", n)
        /\ IF p = NoProc
           THEN /\ returns("False", 359)
                /\ UNCHANGED <<errors, processes>>
           ELSE IF ~Alive(p)
           THEN /\ errors' = ExitRecorded(n, procs[p].code)
                /\ processes' = Popped(n)
                /\ returns("False", 364)
           ELSE /\ returns("True", 365)
                /\ UNCHANGED <<errors, processes>>
        /\ procs' = Sweep(procs, processes', th')
        /\ UNCHANGED <<ui, config, probe, services, ext, hostOk, exited>>

(***************************************************************************)
(* App.destroy: ServiceManager.stop_all, then the application ends (the    *)
(* workers are daemon threads and end with it).                            *)
(***************************************************************************)
\* list(self.processes.keys())
TrackedNames == {n \in Names : processes[n] # NoProc}

\* App.destroy calls self.mgr.stop_all()
destroy ==
    /\ ~exited
    /\ th["main"].pc = "idle"
    /\ th' = [th EXCEPT !["main"] =
                [Idle EXCEPT !.pc = "all_420", !.op = "stop_all",
                             !.todo = TrackedNames]]
    /\ UNCHANGED <<ui, config, probe, services, processes, errors, procs, ext, hostOk, exited>>

\* lines 420-421: the loop over the names; after the last one stop_all
\* returns and super().destroy() ends the application
All420(serial) ==
    /\ ~exited
    /\ th["main"].pc = "all_420"
    /\ IF th["main"].todo = {}
       THEN /\ th' = [th EXCEPT !["main"] = Done("main", "None", 421)]
            /\ exited' = TRUE
       ELSE /\ \E n \in th["main"].todo :
                 /\ serial => Free("main", n)
                 /\ th' = [th EXCEPT !["main"].pc = "stop_319",
                                     !["main"].name = n,
                                     !["main"].ret = "",
                                     !["main"].todo = @ \ {n}]
            /\ UNCHANGED exited
    /\ UNCHANGED <<ui, config, probe, services, processes, errors, procs, ext, hostOk>>

(***************************************************************************)
(* The registry operations.  App._on_add, App._on_cmd_change and           *)
(* App._on_delete call them on the Tk main thread.                         *)
(***************************************************************************)
\* the most definitions the registry is given
MaxServices == 2

\* the command lines typed into the entry: with a quote, a backslash before
\* a letter, a tab inside
Commands ==
    {CmdA, <<"x">>, <<"\"", "x", "\"">>, <<"\\", "n">>, <<"x", "\t", "y">>}

\* the indexes the operations are called with
Indexes == -1..MaxServices

\* 0 <= index < len(self.services)
InRange(index) == 0 <= index /\ index < Len(services)

\* the main thread after a registry operation f called with index has
\* returned from line
Returned(f, index, line) ==
    [Idle EXCEPT !.pc = "ret", !.op = f, !.idx = index, !.ret = "None",
                 !.at = line]

\* self.services.append(svc)
Appended(svcs, name, command) ==
    Append(svcs, [name |-> name, command |-> command])

\* lines 133-137
add_service(name, command) ==
    /\ ~exited
    /\ th["main"].pc = "idle"
    /\ Len(services) < MaxServices
    /\ services' = Appended(services, name, command)
    /\ config' = save_config(services')
    /\ th' = [th EXCEPT !["main"] =
                [Returned("add_service", Len(services), 137)
                   EXCEPT !.name = name, !.cmd = command]]
    /\ UNCHANGED <<ui, probe, processes, errors, procs, ext, hostOk, exited>>

\* lines 139-142
update_command(index, new_command) ==
    /\ ~exited
    /\ th["main"].pc = "idle"
    /\ IF InRange(index)
       THEN /\ services' = [services EXCEPT ![index + 1].command = new_command]
            /\ config' = save_config(services')
            /\ th' = [th EXCEPT !["main"] =
                        [Returned("update_command", index, 142)
                           EXCEPT !.cmd = new_command]]
       ELSE /\ th' = [th EXCEPT !["main"] =
                        [Returned("update_command", index, 140)
                           EXCEPT !.cmd = new_command]]
            /\ UNCHANGED <<services, config>>
    /\ UNCHANGED <<ui, probe, processes, errors, procs, ext, hostOk, exited>>

\* lines 145-147: the range test, svc = self.services[index], and the call
\* of self.stop(svc["name"])
Remove145(index) ==
    /\ ~exited
    /\ th["main"].pc = "idle"
    /\ th' = [th EXCEPT !["main"] =
                IF InRange(index)
                THEN [Idle EXCEPT !.pc = "stop_319", !.op = "remove_service",
                                  !.name = services[index + 1].name,
                                  !.idx = index]
                ELSE Returned("remove_service", index, 145)]
    /\ UNCHANGED <<ui, config, probe, services, processes, errors, procs, ext, hostOk, exited>>

\* list.pop(index)
Without(svcs, index) ==
    [k \in 1..(Len(svcs) - 1) |-> IF k <= index THEN svcs[k] ELSE svcs[k + 1]]

\* lines 148-149: self.services.pop(index); self.save_config()
Remove148 ==
    /\ ~exited
    /\ th["main"].pc = "remove_148"
    /\ services' = Without(services, th["main"].idx)
    /\ config' = save_config(services')
    /\ th' = [th EXCEPT !["main"] =
                [Returned("remove_service", th["main"].idx, 149)
                   EXCEPT !.name = th["main"].name]]
    /\ UNCHANGED <<ui, probe, processes, errors, procs, ext, hostOk, exited>>

\* App._on_toggle, App._on_restart: the row's buttons start a worker on the
\* name of the definition at index
Toggle(t, f, index) ==
    /\ InRange(index)
    /\ Call(t, f, services[index + 1].name, FALSE)

\* App._auto_refresh: is_running of the name of a definition
Refresh(index) ==
    /\ InRange(index)
    /\ is_running(services[index + 1].name, FALSE)

(***************************************************************************)
(* App._auto_refresh: one pass is started by a pending after() call (or by *)
(* App.__init__), calls is_running for every definition of the registry,   *)
(* rebuilds the list if a service that had a handle is not running, and    *)
(* schedules the next pass.                                                *)
(***************************************************************************)
\* the most after() calls of _auto_refresh pending at once
MaxTimers == 3

\* the names the registry defines
RegisteredNames == {services[i].name : i \in 1..Len(services)}

\* name n has a handle whose process has exited
ExitedHandle(n) == processes[n] # NoProc /\ ~Alive(processes[n])

\* self.processes after is_running of each name of S
PolledProcesses(S) ==
    [n \in Names |->
       IF n \in S /\ ExitedHandle(n) THEN NoProc ELSE processes[n]]

\* self.errors after is_running of each name of S
PolledErrors(S) ==
    [n \in Names |->
       IF n \in S /\ ExitedHandle(n)
       THEN ExitRecorded(n, procs[processes[n]].code)[n]
       ELSE errors[n]]

\* a test that forgets whether the service had a handle
NotRunning(was_running, running) == ~running

\* line 759: if was_running and not is_running
Transition(was_running, running) == was_running /\ ~running

\* a pending after() call fires: lines 752-754
Refresh752 ==
    /\ ~exited
    /\ th["main"].pc = "idle"
    /\ ui.timers > 0
    /\ ui' = [ui EXCEPT !.timers = @ - 1, !.changed = FALSE]
    /\ th' = [th EXCEPT !["main"] =
                [Idle EXCEPT !.pc = "refresh_755", !.op = "_auto_refresh"]]
    /\ UNCHANGED <<config, probe, services, processes, errors, procs, ext, hostOk, exited>>

\* lines 755-760: one turn of the loop over self.mgr.services
Refresh755 ==
    LET i == th["main"].idx
        n == services[i + 1].name
        was_running == processes[n] # NoProc
        running == was_running /\ Alive(processes[n])
    IN  /\ ~exited
        /\ th["main"].pc = "refresh_755"
        /\ i < Len(services)
        /\ processes' = PolledProcesses({n})
        /\ errors' = PolledErrors({n})
        /\ ui' = [ui EXCEPT !.changed = @ \/ Transition(was_running, running)]
        /\ th' = [th EXCEPT !["main"].idx = i + 1, !["main"].name = n]
        /\ procs' = Sweep(procs, processes', th')
        /\ UNCHANGED <<config, probe, services, ext, hostOk, exited>>

\* lines 761-763, after the loop: _rebuild_list() if changed (it calls
\* is_running for every definition, lines 563-565), and
\* self.after(2000, self._auto_refresh)
Refresh761 ==
    /\ ~exited
    /\ th["main"].pc = "refresh_755"
    /\ th["main"].idx >= Len(services)
    /\ IF ui.changed
       THEN /\ processes' = PolledProcesses(RegisteredNames)
            /\ errors' = PolledErrors(RegisteredNames)
       ELSE UNCHANGED <<processes, errors>>
    /\ ui' = [ui EXCEPT !.timers = @ + 1, !.rebuilt = ui.changed]
    /\ th' = [th EXCEPT !["main"] =
                [Idle EXCEPT !.pc = "ret", !.op = "_auto_refresh",
                             !.ret = "None", !.at = 763]]
    /\ procs' = Sweep(procs, processes', th')
    /\ UNCHANGED <<config, probe, services, ext, hostOk, exited>>

(***************************************************************************)
(* App._create_row._do_kill: the "Kill PID" button of a row whose error    *)
(* message names a pid.                                                    *)
(***************************************************************************)
\* the pid re.search(r'(?:PID|running:?|by)\s*(\d+)', error) finds in a
\* message, NoProc if none
ConflictingPid(error) ==
    CASE error.kind = "Port used by" -> error.blocker[1]
      [] error.kind = "Process running: PID" -> error.running[1]
      [] error.kind = "Exit code" /\ error.blocker # << >> -> error.blocker[1]
      [] error.kind = "Exit code" /\ error.running # << >> -> error.running[1]
      [] OTHER -> NoProc

\* os.kill(_pid, signal.SIGKILL): the children afterwards
KilledProcs(pid) ==
    IF Alive(pid)
    THEN [procs EXCEPT ![pid].status = "exited", ![pid].code = SigKillCode,
                       ![pid].sig = "KILL"]
    ELSE procs

\* lines 684-690: os.kill, then self.after(200, self._auto_refresh)
KillPid(n) ==
    LET pid == ConflictingPid(errors[n])
    IN  /\ ~exited
        /\ th["main"].pc = "idle"
        /\ n \in RegisteredNames
        /\ pid # NoProc
        /\ ui.timers < MaxTimers
        /\ ext' = {e \in ext : e.pid # pid}
        /\ procs' = Sweep(KilledProcs(pid), processes, th)
        /\ ui' = [ui EXCEPT !.timers = @ + 1]
        /\ th' = [th EXCEPT !["main"] =
                    [Idle EXCEPT !.pc = "ret", !.op = "_do_kill",
                                 !.name = n, !.ret = "None", !.at = 690]]
        /\ UNCHANGED <<config, probe, services, processes, errors, hostOk, exited>>

(***************************************************************************)
(* ServiceManager._extract_port applied to a command line.                 *)
(***************************************************************************)
\* the most pieces a command line is put together from
MaxTokens == 4

\* the pieces: the flags, their separators, digits and another character
ProbeTokens ==
    {<<"-", "-", "p", "o", "r", "t">>,
     <<"-", "p">>,
     <<"=">>,
     <<" ">>,
     <<"\t">>,
     <<"-", "-", "p", "o", "r", "t", "=">>,
     <<"-", "p", " ">>,
     <<"8">>,
     <<"9", "0">>,
     <<"0">>,
     <<"x">>}

\* the command lines of at most k pieces
RECURSIVE Joined(_)
Joined(k) ==
    IF k = 0 THEN {<< >>}
    ELSE LET shorter == Joined(k - 1)
         IN  shorter \cup {c \o tok : c \in shorter, tok \in ProbeTokens}

\* "talkito --mcp-server --port=8000"
CmdTalkito ==
    <<"t", "a", "l", "k", "i", "t", "o", " ", "-", "-", "m", "c", "p", "-",
      "s", "e", "r", "v", "e", "r", " ", "-", "-", "p", "o", "r", "t", "=",
      "8", "0", "0", "0">>

\* "run -p 9090 --verbose"
CmdRun ==
    <<"r", "u", "n", " ", "-", "p", " ", "9", "0", "9", "0", " ", "-", "-",
      "v", "e", "r", "b", "o", "s", "e">>

\* "noport here"
CmdNoPort ==
    <<"n", "o", "p", "o", "r", "t", " ", "h", "e", "r", "e">>

\* the command lines _extract_port is applied to
ProbeCommands ==
    (Joined(MaxTokens) \ {<< >>}) \cup {CmdTalkito, CmdRun, CmdNoPort}

\* no command line looked at
NoProbe == [command |-> << >>, port |-> NoPort, done |-> FALSE]

ExtractPort ==
    /\ ~probe.done
    /\ probe.command # << >>
    /\ probe' = [probe EXCEPT !.port = _extract_port(probe.command),
                              !.done = TRUE]
    /\ UNCHANGED <<ui, config, services, processes, errors, procs, th, ext, hostOk, exited>>

(***************************************************************************)
(* The environment: children end, other processes come and go, the host    *)
(* tools fail and recover.                                                 *)
(***************************************************************************)
\* a child ends on its own, or by the SIGTERM a stop has delivered
ProcExit(p, code) ==
    /\ ~exited
    /\ Alive(p)
    /\ code \in OwnExitCodes
                  \cup (IF procs[p].sig = "TERM" THEN {SigTermCode} ELSE {})
    /\ UNCHANGED <<ui, config, probe, services, processes, errors, th, ext, hostOk, exited>>
    /\ procs' = Sweep([procs EXCEPT ![p].status = "exited", ![p].code = code],
                      processes', th')

ExtToggle(e) ==
    /\ ~exited
    /\ ext' = IF e \in ext THEN ext \ {e} ELSE ext \cup {e}
    /\ UNCHANGED <<ui, config, probe, services, processes, errors, procs, th, hostOk, exited>>

HostToggle ==
    /\ ~exited
    /\ hostOk' = ~hostOk
    /\ UNCHANGED <<ui, config, probe, services, processes, errors, procs, th, ext, exited>>

(***************************************************************************)
(* The specifications.                                                     *)
(***************************************************************************)
\* ServiceManager.__init__ and App.__init__: no child, no error, all threads
\* idle
Boot(file) ==
    /\ config = file
    /\ services = load_config
    /\ processes = [n \in Names |-> NoProc]
    /\ errors = [n \in Names |-> NoError]
    /\ procs = [p \in 1..MaxSpawn |-> FreeSlot]
    /\ th = [t \in Threads |-> Idle]
    /\ ext = {}
    /\ hostOk = TRUE
    /\ exited = FALSE
    /\ ui = [timers |-> 1, changed |-> FALSE, rebuilt |-> FALSE]

\* the application started on a registry file that defines "a"
Init ==
    /\ Boot(save_config(InitServices))
    /\ probe = NoProbe

\* the steps of the threads inside start and stop, and their return
ThreadSteps ==
    \/ \E t \in Threads : Finish(t)
    \/ \E t \in Threads : Start228(t)
    \/ \E t \in Threads : Start228b(t)
    \/ \E t \in Threads : Start231(t)
    \/ \E t \in Threads : Start239(t)
    \/ \E t \in Threads : Start247(t)
    \/ \E t \in Threads : Start266(t)
    \/ \E t \in Threads : Start276(t)
    \/ \E t \in Threads : Stop319(t)
    \/ \E t \in Threads : Stop331(t)
    \/ \E t \in Threads : Stop332(t)
    \/ \E t \in Threads : Stop338(t)

\* the worker threads W, started on operations on the names N
WorkerSteps(serial, W, N) ==
    \/ \E t \in W, f \in {"start", "stop", "restart"}, n \in N :
         Call(t, f, n, serial)
    \/ ThreadSteps

\* the main thread: the poll, and the end of the application
MainSteps(serial, N) ==
    \/ \E n \in N : is_running(n, serial)
    \/ destroy
    \/ All420(serial)

\* the children
ChildSteps ==
    \E p \in 1..MaxSpawn, code \in OwnExitCodes \cup {SigTermCode} :
       ProcExit(p, code)

\* the rest of the host
HostSteps ==
    \/ \E e \in ExtProcs : ExtToggle(e)
    \/ HostToggle

\* one worker at a time beside the main thread, interleaving freely, on a
\* name the registry defines and on one it does not
Next ==
    \/ WorkerSteps(FALSE, {"w1"}, Names)
    \/ MainSteps(FALSE, Names)
    \/ ChildSteps
    \/ HostSteps

Spec == Init /\ [][Next]_vars

\* two workers at a time on one name, interleaving freely, while the main
\* thread is idle
RaceNext ==
    \/ WorkerSteps(FALSE, Workers, {"a"})
    \/ ChildSteps
    \/ HostSteps

RaceSpec == Init /\ [][RaceNext]_vars

\* as Next, but operations on one name do not overlap
SerialNext ==
    \/ WorkerSteps(TRUE, {"w1"}, Names)
    \/ MainSteps(TRUE, Names)
    \/ ChildSteps
    \/ HostSteps

SerialSpec == Init /\ [][SerialNext]_vars

\* the application started on a registry file that defines "a" and "b"
PairInit ==
    /\ Boot(save_config(PairServices))
    /\ probe = NoProbe

\* a worker on "a" and a worker on "b", interleaving freely with each
\* other and with the poll of the main thread
PairNext ==
    \/ \E f \in {"start", "stop", "restart"} : Call("w1", f, "a", FALSE)
    \/ \E f \in {"start", "stop", "restart"} : Call("w2", f, "b", FALSE)
    \/ ThreadSteps
    \/ \E n \in Names : is_running(n, FALSE)
    \/ ChildSteps

PairSpec == PairInit /\ [][PairNext]_vars

\* the application started with no registry file, with an empty registry or
\* with the registry that defines "a"
RegistryInit ==
    /\ \E file \in {NoFile, save_config(<< >>), save_config(InitServices)} :
          Boot(file)
    /\ probe = NoProbe

\* the registry operations of the main thread, one after the other, with
\* no service started
RegistryNext ==
    \/ \E name \in Names, command \in Commands : add_service(name, command)
    \/ \E index \in Indexes, command \in Commands :
         update_command(index, command)
    \/ \E index \in Indexes : Remove145(index)
    \/ Stop319("main")
    \/ Remove148
    \/ Finish("main")

RegistrySpec == RegistryInit /\ [][RegistryNext]_vars

\* the rows' buttons: one worker at a time started on a definition of the
\* registry, the definition deleted and added again on the main thread,
\* and the poll
DeleteNext ==
    \/ \E f \in {"start", "stop", "restart"}, index \in Indexes :
         Toggle("w1", f, index)
    \/ ThreadSteps
    \/ \E index \in Indexes : Remove145(index)
    \/ Remove148
    \/ add_service("a", CmdA)
    \/ \E index \in Indexes : Refresh(index)
    \/ ChildSteps

DeleteSpec == Init /\ [][DeleteNext]_vars

\* the application started on a registry file that defines "a", with port
\* 8 or with port 0 in its command
CheckInit ==
    /\ \E command \in {CmdA, CmdZero} :
          Boot(save_config(<< [name |-> "a", command |-> command] >>))
    /\ probe = NoProbe

\* one worker at a time on "a" beside the poll of the main thread
CheckNext ==
    \/ WorkerSteps(FALSE, {"w1"}, {"a"})
    \/ is_running("a", FALSE)
    \/ ChildSteps
    \/ HostSteps

CheckSpec == CheckInit /\ [][CheckNext]_vars

\* the poll passes of the main thread
PollSteps ==
    \/ Refresh752
    \/ Refresh755
    \/ Refresh761

\* the rows' buttons of "a" with one worker at a time, the Kill PID button,
\* the poll passes, the children and the host
PollNext ==
    \/ WorkerSteps(FALSE, {"w1"}, {"a"})
    \/ PollSteps
    \/ \E n \in Names : KillPid(n)
    \/ ChildSteps
    \/ HostSteps

PollSpec == Init /\ [][PollNext]_vars

\* what the main thread does next when it is inside a handler: Tk runs a
\* handler to its end before it takes the next event
MainContinues ==
    \/ Finish("main")
    \/ Stop319("main")
    \/ Stop331("main")
    \/ Stop332("main")
    \/ Stop338("main")
    \/ Remove148
    \/ Refresh755
    \/ Refresh761

\* the rows' buttons of the registry's definitions with one worker at a
\* time, the delete button, the poll passes and the children
PollDeleteNext ==
    \/ \E f \in {"start", "stop", "restart"}, index \in Indexes :
         Toggle("w1", f, index)
    \/ ThreadSteps
    \/ \E index \in Indexes : Remove145(index)
    \/ Remove148
    \/ PollSteps
    \/ ChildSteps

\* the poll running repeatedly: the main thread finishes every handler it
\* has begun, and Tk's event loop, idle again and again, runs a pending
\* after() call
PollDeleteSpec ==
    /\ Init
    /\ [][PollDeleteNext]_vars
    /\ WF_vars(MainContinues)
    /\ SF_vars(Refresh752)

\* the same without the delete button
PollOnlyNext ==
    \/ \E f \in {"start", "stop", "restart"}, index \in Indexes :
         Toggle("w1", f, index)
    \/ ThreadSteps
    \/ PollSteps
    \/ ChildSteps

PollOnlySpec ==
    /\ Init
    /\ [][PollOnlyNext]_vars
    /\ WF_vars(MainContinues)
    /\ SF_vars(Refresh752)

\* a command line, before _extract_port is applied to it
PortInit ==
    /\ Boot(save_config(InitServices))
    /\ \E c \in ProbeCommands :
          probe = [command |-> c, port |-> NoPort, done |-> FALSE]

PortNext == ExtractPort

PortSpec == PortInit /\ [][PortNext]_vars

(***************************************************************************)
(* Properties.                                                             *)
(***************************************************************************)
\* thread t takes a step
Steps(t) == th'[t] # th[t]

\* thread t returns from start in this step
ReturnsFromStart(t) == th[t].pc \in StartPcs /\ th'[t].pc = "ret"

\* thread t returns from stop in this step (to its caller, to restart or to
\* stop_all)
ReturnsFromStop(t) == th[t].pc \in StopPcs /\ th'[t].pc \notin StopPcs

\* the main thread calls is_running(n) in this step
IsRunningReturns(n) ==
    /\ th["main"].pc = "idle"
    /\ th'["main"].pc = "ret"
    /\ th'["main"].op = "is_running"
    /\ th'["main"].name = n

\* the host query reports the port of command as bound by another process
PortBoundByOther(command) ==
    LET port == _extract_port(command)
    IN  hostOk /\ Truthy(port) /\ \E e \in ext : e.port = port

\* C1: stop(name) on a service that has no handle, or whose tracked process
\* has exited, returns True, leaves the service without a handle, and leaves
\* no error for the name when there was none before.
C1_StopOfStopped ==
    [][\A t \in Threads :
         LET n == th[t].name
             p == processes[n]
         IN  (th[t].pc = "stop_319" /\ Steps(t) /\ (p = NoProc \/ ~Alive(p)))
             => /\ ReturnsFromStop(t)
                /\ th'[t].ret = "True"
                /\ processes'[n] = NoProc
                /\ errors[n] = NoError => errors'[n] = NoError]_vars

\* stop has returned True from line 325: the handle it found was of a
\* process that had exited
C1_StoppedExited ==
    \E t \in Threads :
        /\ th[t].pc = "ret" /\ th[t].op = "stop"
        /\ th[t].at = 325 /\ th[t].ret = "True"
        /\ processes[th[t].name] = NoProc
        /\ errors[th[t].name] = NoError

\* C2: start(name) on a service whose handle is present and whose process is
\* alive returns True at line 229, spawns nothing and leaves the
\* live-process table and the error table as they were.
C2_StartOfRunning ==
    [][\A t \in Threads :
         LET n == th[t].name
             p == processes[n]
         IN  (/\ th[t].pc \in {"start_228", "start_228b"}
              /\ Steps(t)
              /\ p # NoProc
              /\ Alive(p))
             => /\ th[t].pc = "start_228" => th'[t].pc = "start_228b"
                /\ th[t].pc = "start_228b" =>
                      /\ th'[t].pc = "ret"
                      /\ th'[t].ret = "True"
                      /\ th'[t].at = 229
                /\ procs' = procs
                /\ processes' = processes
                /\ errors' = errors]_vars

\* start has returned True from line 229 and the tracked process is alive
C2_StartedRunning ==
    \E t \in Threads :
        /\ th[t].pc = "ret" /\ th[t].op = "start"
        /\ th[t].at = 229 /\ th[t].ret = "True"
        /\ processes[th[t].name] # NoProc
        /\ Alive(processes[th[t].name])

\* C3, as stated: when the port of the command is bound by another process,
\* start returns False, records "Port <N> used by <blocker>", spawns nothing,
\* and afterwards the name has no handle in the table, from every state.
C3_NoHandleAfterPortConflict ==
    [][\A t \in Threads :
         LET n == th[t].name
             port == _extract_port(th[t].cmd)
         IN  (/\ th[t].pc = "start_239"
              /\ Steps(t)
              /\ PortBoundByOther(th[t].cmd))
             => /\ ReturnsFromStart(t)
                /\ th'[t].ret = "False"
                /\ errors'[n] = ErrPort(port, _check_port_conflict(port))
                /\ procs' = procs
                /\ processes'[n] = NoProc]_vars

\* C3, amended: when the host query reports the port of the command as bound
\* by another process, a start that reaches the port check returns False,
\* records "Port <N> used by <blocker>", spawns nothing and leaves the
\* live-process table as it was: a handle of a process that died unobserved
\* stays in it.
C3_PortConflict ==
    [][\A t \in Threads :
         LET n == th[t].name
             port == _extract_port(th[t].cmd)
         IN  (/\ th[t].pc = "start_239"
              /\ Steps(t)
              /\ PortBoundByOther(th[t].cmd))
             => /\ ReturnsFromStart(t)
                /\ th'[t].ret = "False"
                /\ _check_port_conflict(port) # << >>
                /\ errors'[n] = ErrPort(port, _check_port_conflict(port))
                /\ procs' = procs
                /\ processes' = processes]_vars

\* start has returned False from line 244 with the port message recorded,
\* and the table still holds the handle of a process that has exited
C3_FailedOnPort ==
    \E t \in Threads :
        /\ th[t].pc = "ret" /\ th[t].op = "start"
        /\ th[t].at = 244 /\ th[t].ret = "False"
        /\ errors[th[t].name] = ErrPort(8, <<ExtListenerPid>>)
        /\ processes[th[t].name] # NoProc
        /\ ~Alive(processes[th[t].name])

\* C4: stop(name) on a tracked, alive process sends SIGTERM to the group
\* first; it sends SIGKILL only after SIGTERM was delivered and the process
\* had not exited when the 5 s wait ended; and whenever stop returns from
\* lines 327-349, with True or False, the name is not in the table.
C4_StopEscalation ==
    [][\A t \in Threads :
         LET n == th[t].name
             p == th[t].proc
         IN  /\ (th'[t].pc = "stop_332" /\ Steps(t))
                  => /\ th[t].pc = "stop_331"
                     /\ Alive(p)
                     /\ procs'[p].sig = "TERM"
             /\ (th'[t].pc = "stop_338" /\ Steps(t))
                  => /\ th[t].pc = "stop_332"
                     /\ Alive(p)
                     /\ procs[p].sig = "TERM"
             /\ (th[t].pc = "stop_338" /\ Steps(t))
                  => procs[p].sig \in {"TERM", "KILL"}
             /\ (/\ th[t].pc \in {"stop_331", "stop_332", "stop_338"}
                 /\ Steps(t)
                 /\ ReturnsFromStop(t))
                  => /\ processes'[n] = NoProc
                     /\ th'[t].ret \in {"True", "False"}]_vars

\* stop has returned True after the SIGKILL of line 338, and the name is not
\* in the table
C4_StoppedByKill ==
    \E t \in Threads :
        /\ th[t].pc = "ret" /\ th[t].op = "stop"
        /\ th[t].at = 339 /\ th[t].ret = "True"
        /\ processes[th[t].name] = NoProc

\* C5, as stated: from every state in which a tracked process has exited on
\* its own with code N, is_running(name) returns False, removes the handle,
\* and afterwards get_error(name) is "Process exited with code N".
C5_ExitAlwaysRecorded ==
    [][\A n \in Names :
         LET p == processes[n]
         IN  (/\ IsRunningReturns(n)
              /\ p # NoProc
              /\ ~Alive(p)
              /\ procs[p].sig = "none")
             => /\ th'["main"].ret = "False"
                /\ processes'[n] = NoProc
                /\ get_error(n)' = ErrExited(procs[p].code)]_vars

\* C5, amended: when a tracked process has exited with code N,
\* is_running(name) returns False and removes the handle; afterwards
\* get_error(name) is "Process exited with code N" if no error was recorded
\* for the name, and the error already recorded otherwise.
C5_ExitDetected ==
    [][\A n \in Names :
         LET p == processes[n]
         IN  (/\ IsRunningReturns(n)
              /\ p # NoProc
              /\ ~Alive(p))
             => /\ th'["main"].ret = "False"
                /\ processes'[n] = NoProc
                /\ get_error(n)' = IF get_error(n) = NoError
                                   THEN ErrExited(procs[p].code)
                                   ELSE get_error(n)]_vars

\* is_running has returned False from line 364 and the exit code 1 of the
\* process is recorded
C5_ExitSeen ==
    /\ th["main"].pc = "ret" /\ th["main"].op = "is_running"
    /\ th["main"].at = 364 /\ th["main"].ret = "False"
    /\ processes[th["main"].name] = NoProc
    /\ get_error(th["main"].name) = ErrExited(1)

\* C6: in every state get_pid(name) is a pid only if the name has a handle
\* whose process is alive, and then it is that pid; and is_running(name)
\* returns True if and only if get_pid(name) is a pid, before the call and
\* after it.
C6_PidIffRunning ==
    [][/\ \A n \in Names :
            get_pid(n) # NoProc
              => /\ processes[n] # NoProc
                 /\ Alive(processes[n])
                 /\ get_pid(n) = processes[n]
       /\ \A n \in Names :
            IsRunningReturns(n)
              => /\ (th'["main"].ret = "True") <=> (get_pid(n) # NoProc)
                 /\ (th'["main"].ret = "True") <=> (get_pid(n)' # NoProc)]_vars

\* is_running has returned True and get_pid gives the pid of the process
C6_RunningWithPid ==
    /\ th["main"].pc = "ret" /\ th["main"].op = "is_running"
    /\ th["main"].at = 365 /\ th["main"].ret = "True"
    /\ get_pid(th["main"].name) # NoProc

\* C7: under any interleaving of start, stop and restart workers on one
\* name, at most one child spawned for the name is alive, and every such
\* child is the one the table refers to.  (Left out: a child that a stop has
\* signalled; allowed: the child of a start still in its 0.8 s grace period.)
C7_OneChildPerName ==
    \A n \in Names :
        LET kids == {p \in Pids : /\ Alive(p)
                                  /\ procs[p].name = n
                                  /\ procs[p].sig = "none"}
        IN  /\ Cardinality(kids) <= 1
            /\ \A p \in kids :
                 \/ processes[n] = p
                 \/ \E t \in Threads :
                      th[t].pc = "start_276" /\ th[t].proc = p

\* C8: whenever stop(name) returns True, get_error(name) is None at that
\* moment.
C8_NoErrorAfterStop ==
    [][\A t \in Threads :
         (ReturnsFromStop(t) /\ th'[t].ret = "True")
           => \A n \in Names : n = th[t].name => get_error(n)' = NoError]_vars

\* C9: after the stop_all of App.destroy has returned, no child of the
\* supervisor is alive and the live-process table is empty.
C9_NothingLeftAtExit ==
    exited => /\ \A p \in Pids : ~Alive(p)
              /\ \A n \in Names : processes[n] = NoProc

C11_ChecksFailOpen ==
    [][~hostOk =>
         /\ \A port \in {e.port : e \in ExtProcs} :
               _check_port_conflict(port) = << >>
         /\ \A t \in Threads :
               /\ _find_same_cmd_processes(th[t].cmd) = << >>
               /\ (th[t].pc = "start_239" /\ Steps(t))
                    => /\ th'[t].pc = "start_247"
                       /\ errors' = errors /\ processes' = processes
               /\ (th[t].pc = "start_247" /\ Steps(t))
                    => /\ th'[t].pc = "start_266"
                       /\ errors' = errors /\ processes' = processes
               /\ (th[t].pc = "start_276" /\ Steps(t) /\ th'[t].ret = "False")
                    => \A n \in Names : n = th[t].name =>
                         /\ get_error(n)'.blocker = << >>
                         /\ get_error(n)'.running = << >>]_vars

\* a start has passed the port check while the query failed and another
\* process was listening on the port
C11_PassedBlind ==
    \E t \in Threads :
        /\ th[t].pc = "start_247"
        /\ ~hostOk
        /\ \E e \in ext : e.port = _extract_port(th[t].cmd)

\* the lines start returns from
StartReturnLines == {229, 234, 244, 250, 303, 313, 316}

\* C12: a restart runs stop first and start second, on the same name: it
\* enters stop when called, enters start exactly when its stop returns,
\* whatever stop returned, and returns only from start, what start returns.
C12_RestartOrder ==
    [][\A t \in Threads :
         /\ (th[t].pc = "idle" /\ th'[t].op = "restart")
              => th'[t].pc = "stop_319"
         /\ (th[t].op = "restart" /\ Steps(t))
              => /\ ReturnsFromStop(t)
                      => /\ th'[t].pc = "start_228"
                         /\ th'[t].ret \in {"True", "False"}
                         /\ th'[t].name = th[t].name
                 /\ (th'[t].pc \in StartPcs /\ th[t].pc \notin StartPcs)
                      => th[t].pc \in StopPcs
                 /\ th'[t].pc = "ret"
                      => /\ th[t].pc \in StartPcs
                         /\ th'[t].at \in StartReturnLines
                         /\ th'[t].name = th[t].name
                         /\ th'[t].ret =
                              (IF th'[t].at \in {229, 313} THEN "True"
                               ELSE "False")]_vars

\* the stop of a restart has returned False and the restart is in start
C12_StartAfterFailedStop ==
    \E t \in Threads :
        /\ th[t].op = "restart"
        /\ th[t].pc = "start_228"
        /\ th[t].ret = "False"

\* C13: a step of start, stop or restart on one name, and is_running of one
\* name, leave the handle and the error of every other name as they were,
\* whatever the other threads are in the middle of.
C13_OtherNamesUntouched ==
    [][\A A \in Names, B \in Names :
         (/\ A # B
          /\ \/ \E t \in Threads :
                  /\ th[t].name = A /\ Steps(t)
                  /\ th[t].pc \in StartPcs \cup StopPcs
             \/ IsRunningReturns(A))
           => /\ processes'[B] = processes[B]
              /\ errors'[B] = errors[B]]_vars

\* a start of "a" waits for its child while a stop of "b" is signalling
\* the process "b" has a handle of
C13_BothUnderWay ==
    /\ th["w1"].name = "a" /\ th["w1"].pc = "start_276"
    /\ th["w2"].name = "b" /\ th["w2"].pc \in StopPcs \ {"stop_319"}
    /\ processes["b"] # NoProc

\* the main thread returns from the registry operation f in this step
RegistryReturns(f) ==
    /\ th["main"].pc \in {"idle", "remove_148"}
    /\ th'["main"].pc = "ret"
    /\ th'["main"].op = f

\* C14: in every state add_service, update_command and remove_service lead
\* to, the registry file loads back to exactly the list in memory; add_service
\* appends the new definition after the others; update_command replaces
\* one command in place; remove_service takes one definition out and keeps
\* the order of the rest; an index out of range changes neither the list
\* nor the file.
C14_ReloadGivesList ==
    /\ [](load_config = services)
    /\ [][LET m == th'["main"]
           n == Len(services)
       IN  /\ RegistryReturns("add_service")
                => /\ Len(services') = n + 1
                   /\ SubSeq(services', 1, n) = services
                   /\ services'[n + 1] = [name |-> m.name, command |-> m.cmd]
           /\ RegistryReturns("update_command")
                => IF 0 <= m.idx /\ m.idx < n
                   THEN /\ Len(services') = n
                        /\ \A k \in 1..n :
                              /\ services'[k].name = services[k].name
                              /\ services'[k].command =
                                   (IF k = m.idx + 1 THEN m.cmd
                                    ELSE services[k].command)
                   ELSE services' = services /\ config' = config
           /\ RegistryReturns("remove_service")
                => IF 0 <= m.idx /\ m.idx < n
                   THEN /\ Len(services') = n - 1
                        /\ \A k \in 1..(n - 1) :
                              services'[k] =
                                 (IF k <= m.idx THEN services[k]
                                  ELSE services[k + 1])
                   ELSE services' = services /\ config' = config]_vars

\* update_command has replaced the second command of two by one with a
\* backslash in it, the first having quotes in it
C14_SpecialCharsSaved ==
    /\ th["main"].pc = "ret" /\ th["main"].op = "update_command"
    /\ th["main"].at = 142 /\ th["main"].idx = 1
    /\ Len(services) = 2
    /\ services[1].command = <<"\"", "x", "\"">>
    /\ services[2].command = <<"\\", "n">>
    /\ config.exists

\* C15: every name that has a handle in the live-process table has a
\* definition in the registry.
C15_TrackedNamesRegistered ==
    \A n \in Names : processes[n] # NoProc => _find(n) # 0

\* the registry has no definition of name n
Undefined(n) == \A i \in 1..Len(services) : services[i].name # n

\* C16: a start of a name the registry does not define changes neither the
\* children nor the live-process table at any of its steps, and returns
\* False from line 234 with "Service not found" recorded for the name.
C16_StartOfUnknownName ==
    [][\A t \in Threads :
         (/\ th[t].pc \in StartPcs
          /\ Steps(t)
          /\ Undefined(th[t].name))
           => /\ procs' = procs
              /\ processes' = processes
              /\ th'[t].pc \in {"start_231", "ret"}
              /\ th'[t].pc = "ret"
                   => /\ th'[t].ret = "False"
                      /\ th'[t].at = 234
                      /\ \A n \in Names :
                            n = th[t].name => get_error(n)' = ErrNotFound]_vars

\* the flag with its separator: --port= , --port and a blank, -p and a blank
PortFlags ==
    {<<"-", "-", "p", "o", "r", "t", "=">>}
       \cup {<<"-", "-", "p", "o", "r", "t", w>> : w \in WhiteSpace}
       \cup {<<"-", "p", w>> : w \in WhiteSpace}

\* where the digits start if a flag followed by a digit is at i of s, else 0
DigitsAfterFlag(s, i) ==
    LET ends == {i + Len(f) : f \in {g \in PortFlags :
                                      /\ i + Len(g) <= Len(s)
                                      /\ SubSeq(s, i, i + Len(g) - 1) = g
                                      /\ s[i + Len(g)] \in Digits}}
    IN  IF ends = {} THEN 0 ELSE CHOOSE e \in ends : TRUE

DecimalDigits == <<"0", "1", "2", "3", "4", "5", "6", "7", "8", "9">>

\* the number written by the digits of s from j on, read left to right
RECURSIVE NumberFrom(_, _, _)
NumberFrom(s, j, acc) ==
    IF j > Len(s) \/ ~(\E k \in 1..10 : DecimalDigits[k] = s[j]) THEN acc
    ELSE NumberFrom(s, j + 1,
            10 * acc + (CHOOSE k \in 1..10 : DecimalDigits[k] = s[j]) - 1)

\* C17: _extract_port returns the number written after the first of the
\* flags --port=, --port<blank>, -p<blank> that is followed by a digit, and
\* None when the command has no such place; 8000, 9090 and None for the
\* three examples.
C17_FirstPortFlag ==
    probe.done =>
      LET s == probe.command
          occurrences == {i \in 1..Len(s) : DigitsAfterFlag(s, i) > 0}
      IN  /\ IF occurrences = {} THEN probe.port = NoPort
             ELSE \E i \in occurrences :
                    /\ \A k \in occurrences : i <= k
                    /\ probe.port = NumberFrom(s, DigitsAfterFlag(s, i), 0)
          /\ s = CmdTalkito => probe.port = 8000
          /\ s = CmdRun => probe.port = 9090
          /\ s = CmdNoPort => probe.port = NoPort

\* _extract_port has been applied to a command with two flags and has
\* returned the number of the first
C17_TwoFlags ==
    /\ probe.done
    /\ probe.command = <<"-", "p", " ", "9", "0", "-", "-", "p", "o", "r", "t",
                         "=", "8">>
    /\ probe.port = 90

\* a start of the unregistered name has returned False with "Service not
\* found" while a child of the registered name is alive and tracked
C16_NotFound ==
    \E t \in Threads :
        /\ th[t].pc = "ret" /\ th[t].op = "start"
        /\ th[t].name = "b" /\ Undefined("b")
        /\ th[t].ret = "False" /\ th[t].at = 234
        /\ get_error("b") = ErrNotFound
        /\ get_pid("a") # NoProc

\* C18 as stated: a start goes on from the port check to the duplicate
\* check only after it has run the port check, whenever a port can be
\* extracted from its command.
C18_CheckedWheneverExtractable ==
    [][\A t \in Threads :
         (Steps(t) /\ th'[t].pc = "start_247")
           => (_extract_port(th[t].cmd) # NoPort => th'[t].checked)]_vars

\* C18: within one start the steps come in the order port check, duplicate
\* check, spawn: the port check is run exactly when the extracted port is
\* neither None nor 0 and start goes on only if the host reports no
\* listener; start spawns only from the step after a duplicate check that
\* found nothing, and no child appears in any other step; a start at the
\* port check whose port is reported bound fails with the port message
\* whatever the duplicate check would find, and a start at the duplicate
\* check that finds a match fails with "Process running: PID <list>";
\* neither spawns.
C18_ChecksBeforeSpawn ==
    [][/\ \A t \in Threads :
            LET port == _extract_port(th[t].cmd)
                existing == _find_same_cmd_processes(th[t].cmd)
            IN  Steps(t) =>
                  /\ th'[t].pc = "start_247"
                       => /\ th[t].pc = "start_239"
                          /\ th'[t].checked <=> port \notin {NoPort, 0}
                          /\ ~PortBoundByOther(th[t].cmd)
                  /\ th'[t].pc = "start_266"
                       => th[t].pc = "start_247" /\ existing = << >>
                  /\ th'[t].pc = "start_276" => th[t].pc = "start_266"
                  /\ (th[t].pc = "start_239" /\ PortBoundByOther(th[t].cmd))
                       => /\ th'[t].pc = "ret" /\ th'[t].ret = "False"
                          /\ th'[t].at = 244
                          /\ procs' = procs
                          /\ \A n \in Names : n = th[t].name =>
                                get_error(n)' =
                                  ErrPort(port, _check_port_conflict(port))
                  /\ (th[t].pc = "start_247" /\ existing # << >>)
                       => /\ th'[t].pc = "ret" /\ th'[t].ret = "False"
                          /\ th'[t].at = 250
                          /\ procs' = procs
                          /\ \A n \in Names : n = th[t].name =>
                                get_error(n)' = ErrRunning(existing)
       /\ \A p \in 1..MaxSpawn :
            (procs[p].status = "free" /\ procs'[p].status # "free")
              => \E t \in Threads :
                    /\ th[t].pc = "start_266" /\ th'[t].pc = "start_276"
                    /\ th'[t].proc = p]_vars

\* a start has failed at the port check with the port message while a
\* process that the duplicate check reports is running
C18_BothBlock ==
    \E t \in Threads :
        /\ th[t].pc = "ret" /\ th[t].at = 244 /\ th[t].ret = "False"
        /\ get_error(th[t].name).kind = "Port used by"
        /\ hostOk
        /\ _find_same_cmd_processes(CmdA) # << >>
        /\ Cardinality(Pids) = 1

C20_PollFrame ==
    [][\A n \in Names :
         IsRunningReturns(n) =>
           LET p == processes[n]
           IN  IF p # NoProc /\ procs[p].status = "exited"
               THEN /\ th'["main"].at = 364
                    /\ processes' = [processes EXCEPT ![n] = NoProc]
                    /\ IF errors[n] = NoError
                       THEN errors' =
                              [errors EXCEPT ![n] = ErrExited(procs[p].code)]
                       ELSE errors' = errors
               ELSE /\ th'["main"].at \in {359, 365}
                    /\ th'["main"].at = 359 <=> p = NoProc
                    /\ processes' = processes
                    /\ errors' = errors]_vars

\* is_running has found the process exited and has removed the handle;
\* the error of the name is the one a failed start had left
C20_EarlierErrorKept ==
    /\ th["main"].pc = "ret" /\ th["main"].op = "is_running"
    /\ th["main"].at = 364
    /\ processes[th["main"].name] = NoProc
    /\ get_error(th["main"].name).kind = "Port used by"

\* C21: with the poll running repeatedly, a handle whose process has
\* exited does not stay in the live-process table forever.
C21_ExitedHandleRemoved ==
    \A n \in Names : ExitedHandle(n) ~> ~ExitedHandle(n)

\* C22: a pass of _auto_refresh starts with nothing to signal; a turn of
\* its loop marks the pass exactly when the service had a handle before
\* is_running was called and the process of that handle had exited (so
\* that is_running returned False); and the pass calls _rebuild_list at its
\* end if and only if one of its turns has marked it.
C22_RebuildIffTransition ==
    [][LET m == th["main"]
       IN  /\ (m.pc = "idle" /\ th'["main"].pc = "refresh_755")
                => ~ui'.changed
           /\ (m.pc = "refresh_755" /\ th'["main"].pc = "refresh_755"
                 /\ th'["main"] # m)
                => LET n == services[m.idx + 1].name
                   IN  /\ th'["main"].idx = m.idx + 1
                       /\ ui'.changed <=>
                            \/ ui.changed
                            \/ /\ processes[n] # NoProc
                               /\ procs[processes[n]].status = "exited"
                               /\ processes'[n] = NoProc
           /\ (m.pc = "refresh_755" /\ th'["main"].pc = "ret")
                => /\ m.idx = Len(services)
                   /\ ui'.rebuilt <=> ui.changed
                   /\ ui'.changed = ui.changed]_vars

\* a pass has found that the process of "a" had exited and has called
\* _rebuild_list
C22_Rebuilt ==
    /\ th["main"].pc = "ret" /\ th["main"].op = "_auto_refresh"
    /\ ui.rebuilt
    /\ processes["a"] = NoProc
    /\ get_error("a") = ErrExited(1)

\* C23: with the operations on one name not overlapping, a name whose
\* handle is of a process that is alive has no error recorded, in every
\* state.
C23_AliveHasNoError ==
    \A n \in Names :
       (processes[n] # NoProc /\ procs[processes[n]].status = "alive")
         => errors[n] = NoError

\* a restart has returned True: its start has recorded a child that is
\* alive, while another process listens on the port of the command
C23_RunningAgain ==
    \E t \in Threads :
        /\ th[t].pc = "ret" /\ th[t].op = "restart" /\ th[t].at = 313
        /\ processes[th[t].name] # NoProc
        /\ procs[processes[th[t].name]].status = "alive"
        /\ ext # {}

\* C24: at most one after() call of _auto_refresh is pending, and none
\* while a pass is under way.
C24_OnePollChain ==
    ui.timers + (IF th["main"].pc = "refresh_755" THEN 1 ELSE 0) <= 1

====
